---- MODULE Spec2Model ----
(***************************************************************************)
(* Forward Contract Ledger Service: backend/blockchain.py                  *)
(* (BlockchainService) as it is driven by the request handlers of          *)
(* backend/app.py.                                                         *)
(*                                                                         *)
(* The handlers of app.py are coroutines (async def) that call the         *)
(* blocking methods of the one module-level BlockchainService without ever *)
(* awaiting, so the event loop runs one handler at a time, from its first  *)
(* line to its return; requests that arrive meanwhile stay queued.  The    *)
(* ledger node (mining, reachability) moves on its own between any two      *)
(* remote calls of a handler.                                              *)
(***************************************************************************)
EXTENDS Integers, Sequences, FiniteSets, TLC

VARIABLES
    contract_address,   \* self.contract_address (CONTRACT_ADDRESS)
    private_key,        \* self.private_key (PRIVATE_KEY)
    contract,           \* self.contract: "None" or "bound"
    connected,          \* the node answers RPC requests
    node_gas_price,     \* the node's gas price estimate
    tx_count,           \* mined transactions of the signing account ("latest")
    mempool,            \* submitted, not yet mined transactions
    contracts,          \* the ledger program's stored contracts, by id 1..n
    receipts,           \* receipts of mined transactions
    reverts_unknown,    \* the program's getContract reverts on an unknown id
    running,            \* the request whose handler holds the event loop
    call,               \* per request slot: position and locals of its handler
    answered,           \* the request answered by the step just taken, if any
    calls,              \* requests issued so far
    createdOk,          \* ids returned by successful create_contract calls
    signedOk,           \* ids signed successfully after their create returned
    signSent            \* ids for which a sign transaction was submitted

cfgVars == <<contract_address, private_key, contract, reverts_unknown>>
nodeVars == <<connected, node_gas_price>>
ledgerVars == <<tx_count, mempool, contracts, receipts>>
okVars == <<createdOk, signedOk, signSent>>
vars == <<contract_address, private_key, contract, connected, node_gas_price,
          tx_count, mempool, contracts, receipts, reverts_unknown, running,
          call, answered, calls, createdOk, signedOk, signSent>>

---------------------------------------------------------------------------
(* Bounds of the exploration. *)
MaxCalls == 3

(* Program constants. *)
CreateGas == 500000
SignGas == 300000

Workers == {"r1", "r2"}
NoWorker == "none"
Account == "0xA0"            \* address of the held private key
ZeroAddress == "0x0"
LongCommodity == "LONG"      \* a label whose storage needs more than CreateGas
EnvAddresses == {"", "not-an-address", "0xC0"}
EnvKeys == {"", "key"}
GasPrices == {1, 2}          \* the estimates the node gives, in gwei
ContractIds == {1}

\* (commodity, quantity, price_per_unit, delivery_date_timestamp, farmer_address)
CreateArgs == { <<"Soybean", 2, 3, 172805, "0xF1">>,
                <<"Soybean", -1, 3, 172805, "0xF1">>,
                <<LongCommodity, 2, 3, 172805, "0xF1">> }
\* (contract_id, buyer_address)
SignArgs == { <<k, "0xB1">> : k \in ContractIds }
\* (contract_id)
GetArgs == { <<k>> : k \in ContractIds }

ReadRequests == { <<"get", a>> : a \in GetArgs }

Requests ==
    { <<"create", a>> : a \in CreateArgs } \cup
    { <<"sign", a>> : a \in SignArgs } \cup
    ReadRequests \cup
    { <<"status", <<>> >>, <<"root", <<>> >> }

---------------------------------------------------------------------------
(* Python values of mixed type are tagged. *)
PyStr(s) == <<"str", s>>
PyBool(b) == <<"bool", b>>
\* A test that takes every value for true.
Truthy_any(v) == TRUE

\* bool(v), as `if not v` and `and` take it.
Truthy(v) == IF v[1] = "str" THEN v[2] # "" ELSE v[2]

is_address(a) == a = "0xC0"

\* __init__: the binding exists only for a non-empty, valid address.
init_contract(addr) ==
    IF addr # "" /\ is_address(addr) THEN "bound" ELSE "None"

\* A gate that trusts the binding and does not probe the node.
is_configured_unprobed ==
    IF contract_address = "" THEN PyStr(contract_address)
    ELSE IF private_key = "" THEN PyStr(private_key)
    ELSE PyBool(contract # "None")

\* is_configured: a chain of `and`; the value is the first falsy operand, or
\* the last operand.  The liveness probe is reached only when the first three
\* operands are truthy.
is_configured ==
    IF contract_address = "" THEN PyStr(contract_address)
    ELSE IF private_key = "" THEN PyStr(private_key)
    ELSE IF contract = "None" THEN PyBool(FALSE)
    ELSE PyBool(connected)

probe_reached == contract_address # "" /\ private_key # "" /\ contract # "None"

\* The same tests with the signatures looked at before settlement.
get_contract_status_signed_first(farmer_signed, buyer_signed, settled) ==
    IF farmer_signed /\ buyer_signed THEN "SIGNED_BY_BOTH"
    ELSE IF settled THEN "SETTLED"
    ELSE IF farmer_signed THEN "WAITING_FOR_BUYER"
    ELSE "PENDING"

\* _get_contract_status
get_contract_status(farmer_signed, buyer_signed, settled) ==
    IF settled THEN "SETTLED"
    ELSE IF farmer_signed /\ buyer_signed THEN "SIGNED_BY_BOTH"
    ELSE IF farmer_signed THEN "WAITING_FOR_BUYER"
    ELSE "PENDING"

---------------------------------------------------------------------------
(* Outcomes of a service method: a returned value or a raised exception.    *)
(* Every raise in blockchain.py is `raise Exception(text)`; the text is a   *)
(* fixed prefix followed by str() of the caught exception, kept here as the *)
(* pair <<prefix, cause>>.                                                  *)
Returned(v) == [raised |-> FALSE, value |-> v]
Raised(prefix, cause) ==
    [raised |-> TRUE, exception |-> "Exception", message |-> <<prefix, cause>>]

NotConfiguredText(op) ==
    IF op = "create"
    THEN "Blockchain service not configured. Please set CONTRACT_ADDRESS and PRIVATE_KEY in .env"
    ELSE "Blockchain service not configured"

ErrorPrefix(op) ==
    IF op = "create" THEN "Error creating contract: "
    ELSE IF op = "sign" THEN "Error signing contract: "
    ELSE "Error fetching contract details: "

\* app.py: every handler wraps the value as success, and any exception as a
\* 500 whose detail is str(e).
http_response(res) ==
    IF res.raised
    THEN [status_code |-> 500, detail |-> res.message]
    ELSE [status_code |-> 200, success |-> TRUE, data |-> res.value]

---------------------------------------------------------------------------
(* Request slots. *)
IdleCall ==
    [pc |-> "idle", op |-> "none", args |-> <<>>, peers |-> {},
     configured |-> <<>>, nonce |-> <<>>, gas_price |-> <<>>,
     transaction |-> <<>>, tx_hash |-> <<>>, receipt |-> <<>>,
     total |-> <<>>, log |-> <<>>,
     seen |-> <<>>, result |-> <<>>, response |-> <<>>]

Active(w) == call[w].pc # "idle"

Set(w, upd) == call' = [call EXCEPT ![w] = upd @@ call[w]]

\* A step that answers no request.
Quiet == answered' = IdleCall

\* The handler goes on to its next remote call.
Continue(w, upd) ==
    /\ Set(w, upd)
    /\ Quiet
    /\ UNCHANGED running

\* What a request still in flight keeps of a request that ends beside it: the
\* entry point and nonce of the transaction it submitted, if the node took one.
Placed(c) ==
    {[op |-> c.op, nonce |-> c.tx_hash[i].nonce] : i \in 1..Len(c.tx_hash)}

\* The handler answers: its slot is free again, and so is the event loop.
Answer(w, upd, resp) ==
    LET c == upd @@ call[w]
    IN  /\ answered' = [pc |-> "done", response |-> <<resp>>] @@ c
        /\ call' = [v \in Workers |->
                      IF v = w THEN IdleCall
                      ELSE IF Active(v)
                      THEN [call[v] EXCEPT !.peers = @ \cup Placed(c)]
                      ELSE call[v]]
        /\ running' = NoWorker

\* A service method returns or raises inside a handler of app.py.
Finish(w, log2, res) ==
    Answer(w, [log |-> log2, result |-> <<res>>], http_response(res))

Init ==
    /\ contract_address \in EnvAddresses
    /\ private_key \in EnvKeys
    /\ contract = init_contract(contract_address)
    /\ reverts_unknown \in BOOLEAN
    /\ connected \in BOOLEAN
    /\ node_gas_price = 1
    /\ tx_count = 0
    /\ mempool = {}
    /\ contracts = <<>>
    /\ receipts = {}
    /\ running = NoWorker
    /\ call = [w \in Workers |-> IdleCall]
    /\ answered = IdleCall
    /\ calls = 0
    /\ createdOk = {}
    /\ signedOk = {}
    /\ signSent = {}

\* A client issues a request; it waits for the event loop.
request(w) ==
    /\ ~Active(w)
    /\ calls < MaxCalls
    /\ Set(w, [IdleCall EXCEPT !.pc = "queued"])
    /\ calls' = calls + 1
    /\ Quiet
    /\ UNCHANGED <<cfgVars, nodeVars, ledgerVars, running, okVars>>


\* The event loop starts the handler of a queued request, which reads the
\* request and calls the service: `if not self.is_configured(): raise ...`.
\* GET / only reports the value.
start(w, op, args) ==
    LET v == is_configured
        log2 == IF probe_reached THEN <<"is_connected">> ELSE <<>>
        seen2 == [created |-> createdOk, signed |-> signedOk,
                  signSent |-> signSent]
        c == [op |-> op, args |-> args, configured |-> <<v>>, log |-> log2,
              seen |-> <<seen2>>]
    IN  IF op = "root"
        THEN Answer(w, [result |-> <<Returned(v)>>] @@ c,
                    [status_code |-> 200, blockchain_configured |-> v])
        ELSE IF op = "status"
        THEN /\ Set(w, [pc |-> IF Truthy(v) THEN "total_gate" ELSE "probe",
                        total |-> IF Truthy(v) THEN <<>> ELSE <<0>>] @@ c)
             /\ running' = w
             /\ Quiet
        ELSE IF Truthy(v)
        THEN /\ Set(w, [pc |-> IF op = "get" THEN "read" ELSE "nonce"] @@ c)
             /\ running' = w
             /\ Quiet
        ELSE Answer(w, [result |-> <<Raised(NotConfiguredText(op), "")>>] @@ c,
                    http_response(Raised(NotConfiguredText(op), "")))

dispatch(w, menu) ==
    /\ call[w].pc = "queued"
    /\ running = NoWorker
    /\ \E r \in menu : start(w, r[1], r[2])
    /\ UNCHANGED <<cfgVars, nodeVars, ledgerVars, calls, okVars>>

gate(w) == dispatch(w, Requests)

---------------------------------------------------------------------------
(* The transaction pipeline of create_contract and sign_contract. *)
ProgramFn(op) == IF op = "create" THEN "createContract" ELSE "signAsBuyer"

\* The arguments the binding passes to the ledger program: farmer_address
\* and buyer_address are not among them.
ProgramArgs(op, args) ==
    IF op = "create" THEN <<args[1], args[2], args[3], args[4]>>
    ELSE <<args[1]>>

\* ABI encoding: every integer argument is a uint256.
Encodable(op, args) ==
    IF op = "create" THEN args[2] >= 0 /\ args[3] >= 0 /\ args[4] >= 0
    ELSE args[1] >= 0

\* One ceiling for both entry points.
GasLimit_same(op) == SignGas

GasLimit(op) == IF op = "create" THEN CreateGas ELSE SignGas

\* w3.eth.get_transaction_count(account.address): no block identifier is
\* given, so the node counts the account's mined transactions only.
transaction_count == tx_count

\* A nonce query that asks again when the node does not answer.
get_transaction_count_again(w) ==
    /\ call[w].pc = "nonce"
    /\ LET c == call[w]
           log2 == Append(c.log, "get_transaction_count")
       IN  IF connected
           THEN Continue(w, [pc |-> "gas_price", log |-> log2,
                             nonce |-> <<transaction_count>>])
           ELSE Continue(w, [log |-> log2])
    /\ UNCHANGED <<cfgVars, nodeVars, ledgerVars, calls, okVars>>

get_transaction_count(w) ==
    /\ call[w].pc = "nonce"
    /\ LET c == call[w]
           log2 == Append(c.log, "get_transaction_count")
       IN  IF connected
           THEN Continue(w, [pc |-> "gas_price", log |-> log2,
                             nonce |-> <<transaction_count>>])
           ELSE Finish(w, log2, Raised(ErrorPrefix(c.op), "ConnectionError"))
    /\ UNCHANGED <<cfgVars, nodeVars, ledgerVars, calls, okVars>>

\* contract.functions.<fn>(args) encodes the call; then the dictionary given
\* to build_transaction is evaluated, which reads w3.eth.gas_price.
gas_price(w) ==
    /\ call[w].pc = "gas_price"
    /\ LET c == call[w]
           log2 == Append(c.log, "gas_price")
       IN  IF ~Encodable(c.op, c.args)
           THEN Finish(w, c.log, Raised(ErrorPrefix(c.op), "ValidationError"))
           ELSE IF connected
           THEN Continue(w, [pc |-> "build", log |-> log2,
                             gas_price |-> <<node_gas_price>>])
           ELSE Finish(w, log2, Raised(ErrorPrefix(c.op), "ConnectionError"))
    /\ UNCHANGED <<cfgVars, nodeVars, ledgerVars, calls, okVars>>

transaction_of(c) ==
    [from |-> Account, nonce |-> c.nonce[1], gas |-> GasLimit(c.op),
     gasPrice |-> c.gas_price[1], fn |-> ProgramFn(c.op),
     args |-> ProgramArgs(c.op, c.args)]

\* build_transaction fills the remaining fields (chain id) from the node.
build_transaction(w) ==
    /\ call[w].pc = "build"
    /\ LET c == call[w]
           log2 == Append(c.log, "build_transaction")
       IN  IF connected
           THEN Continue(w, [pc |-> "send", log |-> log2,
                             transaction |-> <<transaction_of(c)>>])
           ELSE Finish(w, log2, Raised(ErrorPrefix(c.op), "ConnectionError"))
    /\ UNCHANGED <<cfgVars, nodeVars, ledgerVars, calls, okVars>>

\* sign_transaction, then send_raw_transaction.  The node refuses a nonce
\* that is already mined, and a second transaction for a pending nonce unless
\* it pays a higher gas price, in which case it replaces the pending one.
send_raw_transaction(w) ==
    /\ call[w].pc = "send"
    /\ LET c == call[w]
           t == c.transaction[1]
           log2 == c.log \o <<"sign_transaction", "send_raw_transaction">>
           same == {p \in mempool : p.nonce = t.nonce}
       IN  IF ~connected
           THEN /\ Finish(w, log2, Raised(ErrorPrefix(c.op), "ConnectionError"))
                /\ UNCHANGED <<mempool, signSent>>
           ELSE IF t.nonce < tx_count
           THEN /\ Finish(w, log2, Raised(ErrorPrefix(c.op), "nonce too low"))
                /\ UNCHANGED <<mempool, signSent>>
           ELSE IF \E p \in same : p.gasPrice >= t.gasPrice
           THEN /\ Finish(w, log2, Raised(ErrorPrefix(c.op),
                                     "replacement transaction underpriced"))
                /\ UNCHANGED <<mempool, signSent>>
           ELSE /\ Continue(w, [pc |-> "wait", log |-> log2, tx_hash |-> <<t>>])
                /\ mempool' = (mempool \ same) \cup {t}
                /\ signSent' = IF c.op = "sign" THEN signSent \cup {c.args[1]}
                                ELSE signSent
    /\ UNCHANGED <<cfgVars, nodeVars, tx_count, contracts, receipts, calls,
                   createdOk, signedOk>>

\* contract.events.ContractCreated().process_receipt(receipt)
process_receipt(receipt) ==
    SelectSeq(receipt.logs, LAMBDA e : e.event = "ContractCreated")

\* A result that always carries an id: 0 when the receipt has no event.
create_result_made_up(tx_hash, receipt) ==
    LET logs == process_receipt(receipt)
    IN  [success |-> TRUE, transaction_hash |-> tx_hash,
         contract_id |-> IF logs # <<>> THEN <<logs[1].contractId>> ELSE <<0>>,
         block_number |-> receipt.blockNumber, gas_used |-> receipt.gasUsed]

\* create_contract, lines 170-179
create_result(tx_hash, receipt) ==
    LET logs == process_receipt(receipt)
        contract_id == IF logs # <<>> THEN <<logs[1].contractId>> ELSE <<>>
    IN  [success |-> TRUE, transaction_hash |-> tx_hash,
         contract_id |-> contract_id, block_number |-> receipt.blockNumber,
         gas_used |-> receipt.gasUsed]

\* sign_contract, lines 217-222
sign_result(tx_hash, receipt) ==
    [success |-> TRUE, transaction_hash |-> tx_hash,
     block_number |-> receipt.blockNumber, gas_used |-> receipt.gasUsed]

ReceiptOf(h) == {r \in receipts : r.tx = h}

\* wait_for_transaction_receipt polls the node for the receipt of tx_hash:
\* it returns the receipt once the transaction is mined, and raises
\* TimeExhausted when the timeout elapses first.
wait_for_transaction_receipt(w) ==
    /\ call[w].pc = "wait"
    /\ LET c == call[w]
           h == c.tx_hash[1]
           log1 == Append(c.log, "wait_for_transaction_receipt")
       IN  \/ /\ ~connected
              /\ Finish(w, log1, Raised(ErrorPrefix(c.op), "ConnectionError"))
              /\ UNCHANGED <<createdOk, signedOk>>
           \/ /\ connected
              /\ ReceiptOf(h) = {}
              /\ Finish(w, log1, Raised(ErrorPrefix(c.op), "TimeExhausted"))
              /\ UNCHANGED <<createdOk, signedOk>>
           \/ /\ connected
              /\ \E r \in ReceiptOf(h) :
                    IF c.op = "create"
                    THEN LET res == create_result(h, r)
                         IN  /\ Answer(w, [log |-> Append(log1, "process_receipt"),
                                           receipt |-> <<r>>,
                                           result |-> <<Returned(res)>>],
                                       http_response(Returned(res)))
                             /\ createdOk' = createdOk \cup
                                    {res.contract_id[i] :
                                        i \in 1..Len(res.contract_id)}
                             /\ UNCHANGED signedOk
                    ELSE /\ Answer(w, [log |-> log1, receipt |-> <<r>>,
                                       result |-> <<Returned(sign_result(h, r))>>],
                                   http_response(Returned(sign_result(h, r))))
                         /\ signedOk' = signedOk \cup
                                ({c.args[1]} \cap c.seen[1].created)
                         /\ UNCHANGED createdOk
    /\ UNCHANGED <<cfgVars, nodeVars, ledgerVars, calls, signSent>>

---------------------------------------------------------------------------
(* Reads. *)
\* datetime.fromtimestamp(ts).strftime(fmt): a day, or a second, of the epoch.
strftime(ts, fmt) ==
    IF fmt = "%Y-%m-%d" THEN <<fmt, ts \div 86400>> ELSE <<fmt, ts>>

\* Python's int is unbounded.  A product can exceed what an integer of the
\* model holds, so it is kept the way CPython keeps an int: its digits in
\* base 2^15, least significant first, none for 0 (ints of the arguments are
\* not negative: they are uint256 values read from the ledger).
PyLongBase == 32768

RECURSIVE int_digits(_)
int_digits(n) ==
    IF n = 0 THEN <<>> ELSE <<n % PyLongBase>> \o int_digits(n \div PyLongBase)

RECURSIVE zeros(_)
zeros(n) == IF n = 0 THEN <<>> ELSE <<0>> \o zeros(n - 1)

\* One row of the schoolbook product: z plus f * b, from position k on.
RECURSIVE mul_row(_, _, _, _, _, _)
mul_row(z, f, b, k, j, carry) ==
    IF j > Len(b)
    THEN (IF carry = 0 THEN z ELSE [z EXCEPT ![k] = z[k] + carry])
    ELSE LET t == carry + z[k] + f * b[j]
         IN  mul_row([z EXCEPT ![k] = t % PyLongBase], f, b, k + 1, j + 1,
                     t \div PyLongBase)

RECURSIVE mul_rows(_, _, _, _)
mul_rows(z, a, b, i) ==
    IF i > Len(a) THEN z
    ELSE mul_rows(mul_row(z, a[i], b, i, 1, 0), a, b, i + 1)

RECURSIVE long_normalize(_)
long_normalize(z) ==
    IF z # <<>> /\ z[Len(z)] = 0 THEN long_normalize(SubSeq(z, 1, Len(z) - 1))
    ELSE z

\* A product kept in 30 bits: the two low digits.
int_mul_wrapped(x, y) ==
    LET a == int_digits(x)
        b == int_digits(y)
        z == mul_rows(zeros(Len(a) + Len(b)), a, b, 1)
    IN  long_normalize(SubSeq(z, 1, IF Len(z) < 2 THEN Len(z) ELSE 2))

\* x * y
int_mul(x, y) ==
    LET a == int_digits(x)
        b == int_digits(y)
    IN  long_normalize(mul_rows(zeros(Len(a) + Len(b)), a, b, 1))

\* What getContract hands back for an id the program never stored.
EmptyTuple ==
    <<0, ZeroAddress, ZeroAddress, "", 0, 0, 0, FALSE, FALSE, FALSE, 0>>

\* A view that takes buyer_signed and settled from each other's position.
contract_view_swapped(contract_data) ==
    [contract_id |-> contract_data[1],
     farmer_address |-> contract_data[2],
     buyer_address |-> contract_data[3],
     commodity |-> contract_data[4],
     quantity |-> contract_data[5],
     price_per_unit |-> contract_data[6],
     delivery_date |-> strftime(contract_data[7], "%Y-%m-%d"),
     delivery_date_timestamp |-> contract_data[7],
     farmer_signed |-> contract_data[8],
     buyer_signed |-> contract_data[10],
     settled |-> contract_data[9],
     created_at |-> strftime(contract_data[11], "%Y-%m-%d %H:%M:%S"),
     total_value |-> int_mul(contract_data[5], contract_data[6]),
     status |-> get_contract_status(contract_data[8], contract_data[10],
                                    contract_data[9])]

\* get_contract_details, lines 243-258
contract_view(contract_data) ==
    [contract_id |-> contract_data[1],
     farmer_address |-> contract_data[2],
     buyer_address |-> contract_data[3],
     commodity |-> contract_data[4],
     quantity |-> contract_data[5],
     price_per_unit |-> contract_data[6],
     delivery_date |-> strftime(contract_data[7], "%Y-%m-%d"),
     delivery_date_timestamp |-> contract_data[7],
     farmer_signed |-> contract_data[8],
     buyer_signed |-> contract_data[9],
     settled |-> contract_data[10],
     created_at |-> strftime(contract_data[11], "%Y-%m-%d %H:%M:%S"),
     total_value |-> int_mul(contract_data[5], contract_data[6]),
     status |-> get_contract_status(contract_data[8], contract_data[9],
                                    contract_data[10])]

Stored(id) == id \in 1..Len(contracts)

\* A read made with transact() in place of call(): it is sent as a
\* transaction of the signing account.
get_contract_details_transact(w) ==
    /\ call[w].pc = "read"
    /\ LET c == call[w]
           t == [from |-> Account, nonce |-> tx_count, gas |-> SignGas,
                 gasPrice |-> node_gas_price, fn |-> "getContract",
                 args |-> c.args]
       IN  /\ Finish(w, Append(c.log, "transact"),
                     Raised(ErrorPrefix(c.op), "TypeError"))
           /\ mempool' = mempool \cup {t}
    /\ UNCHANGED <<cfgVars, nodeVars, tx_count, contracts, receipts, calls,
                   okVars>>

\* get_contract_details after the gate: contract.functions.getContract(id).call()
get_contract_details(w) ==
    /\ call[w].pc = "read"
    /\ LET c == call[w]
           id == c.args[1]
           log2 == Append(c.log, "call")
       IN  IF ~connected
           THEN Finish(w, log2, Raised(ErrorPrefix(c.op), "ConnectionError"))
           ELSE IF Stored(id)
           THEN Finish(w, log2, Returned(contract_view(contracts[id])))
           ELSE IF reverts_unknown
           THEN Finish(w, log2, Raised(ErrorPrefix(c.op), "ContractLogicError"))
           ELSE Finish(w, log2, Returned(contract_view(EmptyTuple)))
    /\ UNCHANGED <<cfgVars, nodeVars, ledgerVars, calls, okVars>>

\* get_total_contracts, lines 276-277: the gate is evaluated again.
get_total_contracts_gate(w) ==
    /\ call[w].pc = "total_gate"
    /\ LET c == call[w]
           log2 == IF probe_reached THEN Append(c.log, "is_connected") ELSE c.log
       IN  IF Truthy(is_configured)
           THEN Continue(w, [pc |-> "total_call", log |-> log2])
           ELSE Continue(w, [pc |-> "probe", log |-> log2, total |-> <<0>>])
    /\ UNCHANGED <<cfgVars, nodeVars, ledgerVars, calls, okVars>>

\* A counter read that lets the node's failure through to the handler, whose
\* except clause answers it (app.py, lines 156-161).
get_total_contracts_call_raising(w) ==
    /\ call[w].pc = "total_call"
    /\ LET c == call[w]
           log2 == Append(c.log, "call")
       IN  IF connected
           THEN Continue(w, [pc |-> "probe", log |-> log2,
                             total |-> <<Len(contracts)>>])
           ELSE Answer(w, [log |-> log2,
                           result |-> <<Raised("", "ConnectionError")>>],
                       [status_code |-> 200, success |-> FALSE,
                        configured |-> FALSE])
    /\ UNCHANGED <<cfgVars, nodeVars, ledgerVars, calls, okVars>>

\* get_total_contracts, lines 279-282: any exception becomes 0.
get_total_contracts_call(w) ==
    /\ call[w].pc = "total_call"
    /\ LET c == call[w]
           log2 == Append(c.log, "call")
       IN  Continue(w, [pc |-> "probe", log |-> log2,
                        total |-> IF connected THEN <<Len(contracts)>>
                                  ELSE <<0>>])
    /\ UNCHANGED <<cfgVars, nodeVars, ledgerVars, calls, okVars>>

\* blockchain_status, lines 147-155
blockchain_status(w) ==
    /\ call[w].pc = "probe"
    /\ LET c == call[w]
           body == [success |-> TRUE, configured |-> c.configured[1],
                    connected |-> connected, total_contracts |-> c.total[1]]
       IN  Answer(w, [log |-> Append(c.log, "is_connected"),
                      result |-> <<Returned(body)>>],
                  [status_code |-> 200] @@ body)
    /\ UNCHANGED <<cfgVars, nodeVars, ledgerVars, calls, okVars>>

---------------------------------------------------------------------------
(* The ledger node and the deployed program. *)
GasNeeded(t) ==
    IF t.fn = "signAsBuyer" THEN 50000
    ELSE IF t.args[1] = LongCommodity THEN 600000 ELSE 200000

\* The program accepts a call unless it runs out of gas, or it is a sign of
\* an unknown or already signed contract.
Accepts(t) ==
    /\ GasNeeded(t) <= t.gas
    /\ t.fn = "signAsBuyer" => Stored(t.args[1]) /\ ~contracts[t.args[1]][9]

Executed(t) ==
    IF ~Accepts(t) THEN contracts
    ELSE IF t.fn = "createContract"
    THEN Append(contracts,
                <<Len(contracts) + 1, t.from, ZeroAddress, t.args[1], t.args[2],
                  t.args[3], t.args[4], TRUE, FALSE, FALSE, tx_count + 1>>)
    ELSE [contracts EXCEPT ![t.args[1]] =
              [@ EXCEPT ![3] = t.from, ![9] = TRUE]]

Emitted(t) ==
    IF ~Accepts(t) THEN <<>>
    ELSE IF t.fn = "createContract"
    THEN <<[event |-> "ContractCreated", contractId |-> Len(contracts) + 1]>>
    ELSE <<[event |-> "ContractSigned", contractId |-> t.args[1]]>>

\* Of the node's receipts, those a handler can still ask for: a handler asks
\* for the receipt of its own tx_hash only.
Awaited(rs) == {r \in rs : \E w \in Workers : call[w].tx_hash = <<r.tx>>}

\* The account's next pending transaction is mined.
mine ==
    \E t \in mempool :
        /\ t.nonce = tx_count
        /\ contracts' = Executed(t)
        /\ receipts' = Awaited(receipts \cup
              {[tx |-> t, status |-> IF Accepts(t) THEN 1 ELSE 0,
                logs |-> Emitted(t), blockNumber |-> tx_count + 1,
                gasUsed |-> IF Accepts(t) THEN GasNeeded(t) ELSE t.gas]})
        /\ mempool' = mempool \ {t}
        /\ tx_count' = tx_count + 1
        /\ Quiet
        /\ UNCHANGED <<cfgVars, nodeVars, running, call, calls, okVars>>

node_down ==
    /\ connected
    /\ connected' = FALSE
    /\ Quiet
    /\ UNCHANGED <<cfgVars, node_gas_price, ledgerVars, running, call, calls,
                   okVars>>

node_up ==
    /\ ~connected
    /\ connected' = TRUE
    /\ Quiet
    /\ UNCHANGED <<cfgVars, node_gas_price, ledgerVars, running, call, calls,
                   okVars>>

\* The network's gas price estimate rises.
gas_price_rise ==
    /\ node_gas_price + 1 \in GasPrices
    /\ node_gas_price' = node_gas_price + 1
    /\ Quiet
    /\ UNCHANGED <<cfgVars, connected, ledgerVars, running, call, calls,
                   okVars>>

Next ==
    \/ \E w \in Workers :
          \/ request(w)
          \/ gate(w)
          \/ get_transaction_count(w)
          \/ gas_price(w)
          \/ build_transaction(w)
          \/ send_raw_transaction(w)
          \/ wait_for_transaction_receipt(w)
          \/ get_contract_details(w)
          \/ get_total_contracts_gate(w)
          \/ get_total_contracts_call(w)
          \/ blockchain_status(w)
    \/ mine
    \/ node_down
    \/ node_up
    \/ gas_price_rise

Spec == Init /\ [][Next]_vars

---------------------------------------------------------------------------
(* The read model over a ledger whose stored tuple carries any flags: the  *)
(* deployed program is shared with other clients, so every combination of  *)
(* farmerSigned, buyerSigned and settled can be read back.                 *)
MaxQuantity == 2

\* Quantities and prices around the digit boundaries of an int, 10^9, and
\* the largest integer of the model.
LargeValues == {32767, 32768, 1000000000, 2147483647}

FakeTuples ==
    { <<1, "0xF1", b, "Soybean", q, p, 172805, fs, bs, st, 1>> :
        b \in {ZeroAddress, "0xB1"},
        q \in (0..MaxQuantity) \cup LargeValues,
        p \in {3} \cup LargeValues,
        fs \in BOOLEAN, bs \in BOOLEAN, st \in BOOLEAN }

InitFake ==
    /\ contract_address = "0xC0"
    /\ private_key = "key"
    /\ contract = init_contract(contract_address)
    /\ reverts_unknown \in BOOLEAN
    /\ connected \in BOOLEAN
    /\ node_gas_price = 1
    /\ tx_count = 0
    /\ mempool = {}
    /\ contracts \in { <<t>> : t \in FakeTuples }
    /\ receipts = {}
    /\ running = NoWorker
    /\ call = [w \in Workers |-> IdleCall]
    /\ answered = IdleCall
    /\ calls = 0
    /\ createdOk = {}
    /\ signedOk = {}
    /\ signSent = {}

read_gate(w) == dispatch(w, ReadRequests)

NextFake ==
    \/ \E w \in Workers :
          \/ request(w)
          \/ read_gate(w)
          \/ get_contract_details(w)
    \/ node_down
    \/ node_up

SpecFake == InitFake /\ [][NextFake]_vars

---------------------------------------------------------------------------
(* POST /predict: the handler of app.py and the forecasting model behind   *)
(* it (ml_model.py).  It shares nothing with the ledger service but the    *)
(* event loop.                                                             *)
KnownCommodities == {"Soybean"}
\* (commodity, days)
PredictArgs == {<<c, d>> : c \in {"Soybean", "Teak"}, d \in -1..32}

\* Python exceptions and `except <class>`: a clause takes the exceptions of
\* its class and of the classes derived from it.
HTTPException(status_code, detail) ==
    [class |-> "HTTPException", status_code |-> status_code, detail |-> detail]
PyException(class, text) == [class |-> class, text |-> text]
BaseClasses(class) ==
    IF class = "Exception" THEN {"Exception"} ELSE {class, "Exception"}
Caught(e, class) == class \in BaseClasses(e.class)

\* PricePredictionModel.predict_prices: any exception inside, the ValueError
\* for a commodity without data too, leaves as a plain Exception.
ml_predict_prices(commodity, days) ==
    IF commodity \notin KnownCommodities
    THEN [raised |-> TRUE,
          exception |-> PyException("Exception",
              <<"Error in price prediction: ", "No data found for commodity">>)]
    ELSE [raised |-> FALSE,
          value |-> [commodity |-> commodity, forecast_period_days |-> days,
                     predictions |-> [i \in 1..days |-> [day |-> i]]]]

\* The body of the try block of the handler: what it returns or raises, and
\* whether it called the model.
predict_body(commodity, days) ==
    IF days < 1 \/ days > 30
    THEN [raised |-> TRUE, called |-> FALSE,
          exception |-> HTTPException(400, "Days must be between 1 and 30")]
    ELSE [called |-> TRUE] @@ ml_predict_prices(commodity, days)

\* The handler: the except clauses in their order.
predict_response(commodity, days) ==
    LET body == predict_body(commodity, days)
    IN  IF ~body.raised
        THEN [status_code |-> 200, success |-> TRUE, data |-> body.value]
        ELSE IF Caught(body.exception, "ValueError")
        THEN [status_code |-> 404, detail |-> <<"", body.exception>>]
        ELSE IF Caught(body.exception, "Exception")
        THEN [status_code |-> 500,
              detail |-> <<"Prediction error: ", body.exception>>]
        ELSE [status_code |-> body.exception.status_code,
              detail |-> body.exception.detail]

predict_prices(w) ==
    /\ call[w].pc = "queued"
    /\ running = NoWorker
    /\ \E a \in PredictArgs :
          Answer(w, [op |-> "predict", args |-> a,
                     log |-> IF predict_body(a[1], a[2]).called
                             THEN <<"ml_model.predict_prices">> ELSE <<>>],
                 predict_response(a[1], a[2]))
    /\ UNCHANGED <<cfgVars, nodeVars, ledgerVars, calls, okVars>>

NextPredict == \E w \in Workers : request(w) \/ predict_prices(w)

SpecPredict == Init /\ [][NextPredict]_vars

---------------------------------------------------------------------------
(* Properties.  A request is looked at in the state its handler answers,   *)
(* where `answered` holds the handler's locals, its result and its HTTP    *)
(* response.                                                               *)
Mutating == {"create", "sign"}
Done(a) == a.pc = "done"
InLog(a, name) == \E i \in 1..Len(a.log) : a.log[i] = name
Pending == {p.nonce : p \in mempool}

\* C1: two createContract calls in flight together are never submitted with
\* the same nonce.  (`peers` holds what the requests that ended while this
\* one was in flight had built and submitted.)
C1_DistinctNonces ==
    \A c \in {call[w] : w \in Workers} \cup {answered} :
        (c.op = "create" /\ InLog(c, "send_raw_transaction")) =>
            \A p \in c.peers :
                p.op = "create" => p.nonce # c.transaction[1].nonce

\* C2: a createContract, signContract or getContractDetails call whose gate
\* found the service unconfigured fails with the not-configured error, has
\* made no adapter call (nonce, gas price, build, submit, wait, read) and
\* has built no transaction, and the step that answers it, which is the
\* whole call, leaves the ledger as it was.
AdapterCalls ==
    {"get_transaction_count", "gas_price", "build_transaction",
     "sign_transaction", "send_raw_transaction",
     "wait_for_transaction_receipt", "process_receipt", "call"}

NotConfiguredTexts ==
    {"Blockchain service not configured. Please set CONTRACT_ADDRESS and PRIVATE_KEY in .env",
     "Blockchain service not configured"}

Unconfigured(a) ==
    /\ Done(a)
    /\ a.op \in Mutating \cup {"get"}
    /\ a.configured[1] \in {PyStr(""), PyBool(FALSE)}

C2_NotConfigured ==
    [][Unconfigured(answered') =>
          /\ answered'.result[1].raised
          /\ answered'.result[1].message[1] \in NotConfiguredTexts
          /\ answered'.result[1].message[2] = ""
          /\ \A n \in AdapterCalls : ~InLog(answered', n)
          /\ answered'.transaction = <<>>
          /\ answered'.tx_hash = <<>>
          /\ \E w \in Workers : call[w].pc = "queued" /\ call'[w].pc = "idle"
          /\ UNCHANGED ledgerVars]_vars

\* C2's case: with contracts on the ledger and the node gone, a create is
\* refused at the gate.
C2_Witness ==
    /\ Unconfigured(answered)
    /\ answered.op = "create"
    /\ answered.configured = <<PyBool(FALSE)>>
    /\ answered.result[1].raised
    /\ contracts # <<>>

\* C3: a mutating call whose transaction was submitted but whose receipt
\* did not arrive in time is answered with an outcome of its own kind, not
\* that of a call that failed before its transaction had an identifier.
\* The kind of an outcome is what the service itself decides of it: the
\* class of the exception, the text the method puts before str(e), and
\* the status of the HTTP response.
Kind(res, resp) ==
    [raised |-> res.raised,
     exception |-> IF res.raised THEN res.exception ELSE "",
     text |-> IF res.raised THEN res.message[1] ELSE "",
     status_code |-> resp.status_code]

TimedOut(a) ==
    /\ Done(a)
    /\ a.op \in Mutating
    /\ a.tx_hash # <<>>
    /\ a.receipt = <<>>
    /\ a.result[1].raised
    /\ a.result[1].message[2] = "TimeExhausted"

EarlyCauses ==
    {"ConnectionError", "ValidationError", "nonce too low",
     "replacement transaction underpriced"}

C3_ConfirmationTimeout ==
    TimedOut(answered) =>
        \A cause \in EarlyCauses :
            LET early == Raised(ErrorPrefix(answered.op), cause)
            IN  Kind(answered.result[1], answered.response[1])
                    # Kind(early, http_response(early))

\* C4: a mutating call whose transaction was mined and rejected by the
\* ledger program (receipt status 0) is answered with an error, never with
\* success.
Reverted(a) ==
    /\ Done(a)
    /\ a.op \in Mutating
    /\ a.receipt # <<>>
    /\ a.receipt[1].status = 0

C4_RevertIsError ==
    Reverted(answered) =>
        /\ answered.result[1].raised
        /\ answered.response[1].status_code # 200

\* C5: a read that the ledger program answers with the empty tuple, for an
\* id it never stored, fails (NotFound); it returns no view.
SentinelRead(a) ==
    /\ Done(a)
    /\ a.op = "get"
    /\ InLog(a, "call")
    /\ connected
    /\ ~reverts_unknown
    /\ ~Stored(a.args[1])

C5_NotFound == SentinelRead(answered) => answered.result[1].raised

\* A read that returned a view.
Viewed(a) == Done(a) /\ a.op = "get" /\ ~a.result[1].raised
View(a) == a.result[1].value

\* C6: the status of a view follows the stored flags by precedence: SETTLED
\* if settled, else SIGNED_BY_BOTH if both signed, else WAITING_FOR_BUYER if
\* the farmer signed, else PENDING.  Row by row, as (farmerSigned,
\* buyerSigned, settled, status):
StatusRows ==
    { <<TRUE,  TRUE,  TRUE,  "SETTLED">>,
      <<TRUE,  FALSE, TRUE,  "SETTLED">>,
      <<FALSE, TRUE,  TRUE,  "SETTLED">>,
      <<FALSE, FALSE, TRUE,  "SETTLED">>,
      <<TRUE,  TRUE,  FALSE, "SIGNED_BY_BOTH">>,
      <<TRUE,  FALSE, FALSE, "WAITING_FOR_BUYER">>,
      <<FALSE, TRUE,  FALSE, "PENDING">>,
      <<FALSE, FALSE, FALSE, "PENDING">> }

C6_StatusPrecedence ==
    (Viewed(answered) /\ Stored(answered.args[1])) =>
        LET d == contracts[answered.args[1]]
        IN  <<d[8], d[9], d[10], View(answered).status>> \in StatusRows

\* C6's case: a contract both have signed and that is settled reads SETTLED.
C6_Witness ==
    /\ Viewed(answered)
    /\ View(answered).farmer_signed
    /\ View(answered).buyer_signed
    /\ View(answered).settled
    /\ View(answered).status = "SETTLED"

\* C7: every evaluation of is_configured is true exactly when, at that
\* moment, the address is non-empty and valid, the key is non-empty and the
\* node answers the probe; a handler that evaluates it twice (status) gets
\* the node's reachability of each moment.
GateOperands ==
    /\ contract_address # ""
    /\ is_address(contract_address)
    /\ private_key # ""
    /\ connected

C7_IsConfigured ==
    [][\A w \in Workers :
          /\ (call[w].pc = "queued" /\ call'[w].pc # "queued") =>
                (Truthy(IF call'[w].pc = "idle"
                        THEN answered'.configured[1]
                        ELSE call'[w].configured[1]) <=> GateOperands)
          /\ (call[w].pc = "total_gate" /\ call'[w].pc # "total_gate") =>
                (call'[w].pc = "total_call" <=> GateOperands)]_vars

\* C7's case: a status handler found the service configured, the node went
\* away, and its second evaluation found it unconfigured.
C7_Witness ==
    \E w \in Workers :
        /\ call[w].pc = "probe"
        /\ Truthy(call[w].configured[1])
        /\ call[w].total = <<0>>
        /\ ~InLog(call[w], "call")

\* C8: the contract_id of a successful create is the contractId of the
\* creation event in the receipt of the transaction this call submitted;
\* with no such event in that receipt the call still succeeds and carries
\* no id.
Created(a) == Done(a) /\ a.op = "create" /\ ~a.result[1].raised

CreationIds(receipt) ==
    {receipt.logs[i].contractId :
        i \in {j \in 1..Len(receipt.logs) :
                  receipt.logs[j].event = "ContractCreated"}}

C8_ContractIdFromEvent ==
    Created(answered) =>
        LET r == answered.receipt[1]
            ids == {answered.result[1].value.contract_id[i] :
                       i \in 1..Len(answered.result[1].value.contract_id)}
        IN  /\ r.tx = answered.transaction[1]
            /\ answered.result[1].value.success
            /\ ids = CreationIds(r)
            /\ Cardinality(ids) <= 1

\* C8's case: the receipt carries the creation event of a second contract.
C8_Witness ==
    /\ Created(answered)
    /\ answered.result[1].value.contract_id = <<2>>
    /\ Len(contracts) = 2

\* C9: a read of k that starts after a create returned k, and before any
\* sign of k was submitted, reports WAITING_FOR_BUYER with farmer_signed;
\* a read of k that starts after a sign of k that followed the create
\* returned success reports SIGNED_BY_BOTH with both signatures, unsettled.
C9_ReadAfterWrite ==
    Viewed(answered) =>
        LET k == answered.args[1]
            seen == answered.seen[1]
            v == View(answered)
        IN  /\ (k \in seen.created /\ k \notin seen.signSent) =>
                  (v.status = "WAITING_FOR_BUYER" /\ v.farmer_signed)
            /\ k \in seen.signed =>
                  /\ v.status = "SIGNED_BY_BOTH"
                  /\ v.farmer_signed
                  /\ v.buyer_signed
                  /\ ~v.settled

\* C9's case: create, sign and read, one after the other.
C9_Witness ==
    /\ Viewed(answered)
    /\ answered.args[1] \in answered.seen[1].signed
    /\ View(answered).status = "SIGNED_BY_BOTH"

\* C10: the nonce a call acquires is not the nonce of a transaction of the
\* account that is still pending.
C10_NonceCountsPending ==
    \A w \in Workers :
        call[w].pc = "gas_price" => call[w].nonce[1] \notin Pending

\* C11: while one mutating call waits for its receipt, a second request
\* that has arrived can go on: its handler can start, towards its nonce
\* acquisition and submission.
C11_WaitDoesNotBlock ==
    \A w \in Workers, v \in Workers :
        (call[w].pc = "wait" /\ call[w].op \in Mutating
            /\ call[v].pc = "queued") => ENABLED gate(v)

\* The record of request w after a step: its answer if the step answered it.
Ends(w) == call[w].pc # "idle" /\ call'[w].pc = "idle"
After(w) == IF Ends(w) THEN answered' ELSE call'[w]
Count(log, name) == Cardinality({i \in 1..Len(log) : log[i] = name})
PipelinePcs == {"nonce", "gas_price", "build", "send", "wait"}

\* C12: a create or sign call queries the nonce, signs and submits at most
\* once each; a step the node does not answer ends the call with an error
\* at that step; a call that ends with an error leaves the ledger as its
\* last step found it; and every call starts without a nonce or a
\* transaction and takes its nonce from the node.
C12_OneAttempt ==
    [][\A w \in Workers :
          /\ After(w).op \in Mutating =>
                /\ Count(After(w).log, "get_transaction_count") <= 1
                /\ Count(After(w).log, "sign_transaction") <= 1
                /\ Count(After(w).log, "send_raw_transaction") <= 1
                /\ (Ends(w) /\ After(w).result[1].raised) =>
                      UNCHANGED ledgerVars
          /\ (call[w].pc \in PipelinePcs /\ ~connected /\ call'[w] # call[w]) =>
                /\ Ends(w)
                /\ answered'.result[1].raised
                /\ call'[w] = IdleCall
          /\ call[w].pc = "queued" =>
                After(w).nonce = <<>> /\ After(w).transaction = <<>>
          /\ (call[w].nonce = <<>> /\ After(w).nonce # <<>>) =>
                call[w].pc = "nonce" /\ After(w).nonce = <<tx_count>>]_vars

\* C12's case: the node stops answering at submission; the call ends with
\* the error and nothing was submitted.
C12_Witness ==
    /\ Done(answered)
    /\ answered.op \in Mutating
    /\ answered.result[1].raised
    /\ answered.result[1].message[2] = "ConnectionError"
    /\ InLog(answered, "send_raw_transaction")
    /\ answered.tx_hash = <<>>
    /\ mempool = {}

\* C13: a contract read back after its create was confirmed has as farmer
\* the farmer_address given to create_contract (every create of CreateArgs
\* names a farmer other than the signing account).
FarmerAddresses == {a[5] : a \in CreateArgs}

C13_FarmerRecorded ==
    (Viewed(answered) /\ answered.args[1] \in answered.seen[1].created) =>
        /\ View(answered).farmer_address \in FarmerAddresses
        /\ View(answered).farmer_address # Account

\* C14: every failure of create_contract, sign_contract and
\* get_contract_details is answered with an error, and the kind of that answer
\* (class, text before str(e), HTTP status) is not the kind of the answer
\* the same method gives to a failure of another of the six kinds.
FailureKinds ==
    {"NotConfigured", "Unreachable", "SubmissionFailed",
     "ConfirmationTimeout", "LedgerRevert", "NotFound"}

\* The failure a finished call met, read off its locals and the ledger.
FailureKind(a) ==
    IF ~(Done(a) /\ a.op \in Mutating \cup {"get"}) THEN "none"
    ELSE IF a.configured[1] \in {PyStr(""), PyBool(FALSE)}
    THEN (IF InLog(a, "is_connected") THEN "Unreachable" ELSE "NotConfigured")
    ELSE IF Reverted(a) THEN "LedgerRevert"
    ELSE IF TimedOut(a) THEN "ConfirmationTimeout"
    ELSE IF a.op \in Mutating /\ a.result[1].raised /\ a.tx_hash = <<>>
    THEN "SubmissionFailed"
    ELSE IF SentinelRead(a) \/
            (a.op = "get" /\ a.result[1].raised
                /\ a.result[1].message[2] = "ContractLogicError")
    THEN "NotFound"
    ELSE "none"

\* The errors method op raises for a failure of kind k.
ErrorsOf(k, op) ==
    IF k \in {"NotConfigured", "Unreachable"}
    THEN {Raised(NotConfiguredText(op), "")}
    ELSE IF k = "SubmissionFailed" /\ op \in Mutating
    THEN {Raised(ErrorPrefix(op), cause) : cause \in EarlyCauses}
    ELSE IF k = "ConfirmationTimeout" /\ op \in Mutating
    THEN {Raised(ErrorPrefix(op), "TimeExhausted")}
    ELSE IF k = "NotFound" /\ op = "get"
    THEN {Raised(ErrorPrefix(op), "ContractLogicError")}
    ELSE {}

C14_SixKinds ==
    FailureKind(answered) # "none" =>
        /\ answered.result[1].raised
        /\ \A k \in FailureKinds \ {FailureKind(answered)} :
              \A e \in ErrorsOf(k, answered.op) :
                  Kind(answered.result[1], answered.response[1])
                      # Kind(e, http_response(e))

\* C15: get_total_contracts returns 0 when the service is unconfigured,
\* without reading the counter; it never raises; configured and answered by
\* the node, it returns the number of contracts the ledger holds.
C15_TotalContracts ==
    [][\A w \in Workers :
          /\ (call[w].pc = "total_gate" /\ call'[w] # call[w]) =>
                IF GateOperands
                THEN /\ call'[w].pc = "total_call"
                     /\ call'[w].total = <<>>
                ELSE /\ call'[w].pc = "probe"
                     /\ call'[w].total = <<0>>
                     /\ ~InLog(call'[w], "call")
          /\ (call[w].pc = "total_call" /\ call'[w] # call[w]) =>
                /\ call'[w].pc = "probe"
                /\ InLog(call'[w], "call")
                /\ call'[w].total =
                      IF connected THEN <<Len(contracts)>> ELSE <<0>>]_vars

\* C15's case: the counter of a ledger that holds a contract is read.
C15_Witness ==
    \E w \in Workers :
        /\ call[w].pc = "probe"
        /\ InLog(call[w], "call")
        /\ call[w].total = <<1>>
        /\ Len(contracts) = 1

\* C16: total_value is the exact product of the stored quantity and price
\* per unit, for values up to 10^9 and beyond.  The digits of total_value
\* are at most five proper digits, so they denote a number below 2^75; the
\* product is below 2^62; both leave the same residue for six primes whose
\* product exceeds 2^75, so they are the same number.
Primes == {32749, 32719, 32717, 32713, 32707, 32693}

RECURSIVE Residue(_, _)
Residue(digits, m) ==
    IF digits = <<>> THEN 0
    ELSE (digits[1] + PyLongBase * Residue(Tail(digits), m)) % m

C16_TotalValueExact ==
    (Viewed(answered) /\ Stored(answered.args[1])) =>
        LET d == contracts[answered.args[1]]
            v == View(answered).total_value
        IN  /\ View(answered).quantity = d[5]
            /\ View(answered).price_per_unit = d[6]
            /\ Len(v) <= 5
            /\ \A i \in 1..Len(v) : v[i] \in 0..(PyLongBase - 1)
            /\ \A m \in Primes :
                  Residue(v, m) = ((d[5] % m) * (d[6] % m)) % m

\* C16's case: 10^9 units at 10^9 each read back as 10^18.
C16_Witness ==
    /\ Viewed(answered)
    /\ View(answered).quantity = 1000000000
    /\ View(answered).price_per_unit = 1000000000
    /\ View(answered).total_value = <<0, 20168, 23246, 28421>>

\* C17: the steps of a mutating call happen in one order: gate (probe),
\* nonce, gas price and assembly with the fixed gas limit, signing,
\* submission, wait, and for create the event decode.  At every moment the
\* steps made are a beginning of that order; a success has made them all, on
\* a transaction with the entry point's gas limit and the gas price read,
\* and holds the receipt of the transaction it submitted.
StepOrder(op) ==
    <<"is_connected", "get_transaction_count", "gas_price",
      "build_transaction", "sign_transaction", "send_raw_transaction",
      "wait_for_transaction_receipt">>
    \o (IF op = "create" THEN <<"process_receipt">> ELSE <<>>)

IsPrefix(s, t) == Len(s) <= Len(t) /\ s = SubSeq(t, 1, Len(s))

C17_StepOrder ==
    \A c \in {call[w] : w \in Workers} \cup {answered} :
        c.op \in Mutating =>
            /\ IsPrefix(c.log, StepOrder(c.op))
            /\ c.transaction # <<>> =>
                  /\ c.transaction[1].gas =
                        (IF c.op = "create" THEN 500000 ELSE 300000)
                  /\ c.transaction[1].gasPrice = c.gas_price[1]
                  /\ c.transaction[1].nonce = c.nonce[1]
            /\ (Done(c) /\ ~c.result[1].raised) =>
                  /\ c.log = StepOrder(c.op)
                  /\ c.tx_hash = c.transaction
                  /\ c.receipt # <<>>
                  /\ c.receipt[1].tx = c.tx_hash[1]

\* C17's case: a sign went through all its steps and was accepted.
C17_Witness ==
    /\ Done(answered)
    /\ answered.op = "sign"
    /\ ~answered.result[1].raised
    /\ answered.receipt[1].status = 1
    /\ answered.log = StepOrder("sign")

\* C18: no step of a read (is_configured through GET /, the status
\* handler with get_total_contracts, get_contract_details) changes the
\* ledger: the stored contracts and their count, the account's transaction
\* count, the pending transactions and the receipts stay as they were, and
\* the read has no nonce, built no transaction and signed or sent nothing,
\* whether it returns or raises.
ReadOps == {"get", "status", "root"}
WriteSteps ==
    {"get_transaction_count", "build_transaction", "sign_transaction",
     "send_raw_transaction"}

C18_ReadsChangeNothing ==
    [][\A w \in Workers :
          (call'[w] # call[w] /\ After(w).op \in ReadOps) =>
              /\ contracts' = contracts
              /\ tx_count' = tx_count
              /\ mempool' = mempool
              /\ receipts' = receipts
              /\ After(w).nonce = <<>>
              /\ After(w).transaction = <<>>
              /\ After(w).tx_hash = <<>>
              /\ \A n \in WriteSteps : ~InLog(After(w), n)]_vars

\* C18's case: a read returns a contract while a transaction of the account
\* is still pending.
C18_Witness ==
    /\ Viewed(answered)
    /\ Stored(answered.args[1])
    /\ mempool # {}

\* C19: a POST /predict whose days is below 1 or above 30 is answered with
\* status 400 and the detail "Days must be between 1 and 30", and the
\* forecasting model is not called.
C19_DaysOutOfRange ==
    (Done(answered) /\ answered.op = "predict"
        /\ (answered.args[2] < 1 \/ answered.args[2] > 30)) =>
        /\ answered.response[1].status_code = 400
        /\ answered.response[1].detail = "Days must be between 1 and 30"
        /\ ~InLog(answered, "ml_model.predict_prices")

====
